---- MODULE Spec2Model ----
(***************************************************************************)
(* Model of the transaction type of the rivine "types" package             *)
(* (transaction.go): binary encoding and decoding of a Transaction, the    *)
(* derivation of its identifiers, the standardness check and the           *)
(* validation dispatch.                                                    *)
(*                                                                         *)
(* Bytes are the integers 0..255 and a byte string is a sequence of them.  *)
(* A Go slice is a sequence; a nil slice and an empty slice are the same   *)
(* sequence <<>>.  A hash is modelled by its input bytes (an injective     *)
(* hash), so two identifiers are equal exactly when their inputs are.      *)
(***************************************************************************)
EXTENDS Integers, Sequences, FiniteSets, TLC

\* ------------------------------------------------------------------ bounds
\* width in bytes of a hash value (crypto.HashSize is 32)
HashLen == 1
\* largest number of elements a constructed transaction holds in its six
\* core fields together
MaxElems == 1
\* output indexes given to CoinOutputID / BlockStakeOutputID
MaxIndex == 1
\* largest number of LoadString / UnmarshalJSON calls made on one Specifier
MaxLoads == 2

\* --------------------------------------------------------------- constants
SpecifierLen == 16
TransactionVersionZero == 0

SpecifierCoinOutput ==
    <<99, 111, 105, 110, 32, 111, 117, 116, 112, 117, 116, 0, 0, 0, 0, 0>>
SpecifierBlockStakeOutput ==
    <<98, 108, 115, 116, 97, 107, 101, 32, 111, 117, 116, 112, 117, 116, 0, 0>>

ErrNil == "nil"
ErrInvalidTransactionVersion == "invalid transaction version"
ErrDecode == "could not decode"
ErrEncoder == "encoder error"
ErrRejected == "rejected by extension validator"
ErrTooLarge == "transaction too large"
ErrJSON == "invalid json"

\* how a call ends other than by returning: the value handed to panic
NoPanic == "no panic"
PanicBlockHeight == "block height out of bounds"
PanicSequenceID == "transaction sequence ID out of bounds"
PanicNilDereference == "invalid memory address or nil pointer dereference"

\* ------------------------------------------------- primitive binary encoder
RECURSIVE Concat(_)
Concat(ss) == IF ss = <<>> THEN <<>> ELSE Head(ss) \o Concat(Tail(ss))

RECURSIVE EncLE(_, _)
EncLE(n, k) == IF k = 0 THEN <<>> ELSE <<n % 256>> \o EncLE(n \div 256, k - 1)

\* encoding.EncUint64: 8 bytes, little endian
EncUint64(n) == EncLE(n, 8)

\* a byte slice: length prefix, then the bytes
EncBytes(b) == EncUint64(Len(b)) \o b

RECURSIVE BigEndian(_)
BigEndian(c) == IF c = 0 THEN <<>> ELSE BigEndian(c \div 256) \o <<c % 256>>

\* Currency.MarshalSia: the length-prefixed big-endian bytes of the value
EncCurrency(c) == EncBytes(BigEndian(c))

\* UnlockHash: one type byte followed by the hash
EncUnlockHash(uh) == <<uh.Type>> \o uh.Hash

\* CoinInput / BlockStakeInput: struct {ParentID; Unlocker}, field by field.
\* The unlocker is an opaque value with a one-byte encoding.
EncInput(ci) == ci.ParentID \o <<ci.Unlocker>>

\* CoinOutput / BlockStakeOutput: struct {Value; UnlockHash}, field by field
EncOutput(co) == EncCurrency(co.Value) \o EncUnlockHash(co.UnlockHash)

EncElem(kind, e) ==
    CASE kind = "input" -> EncInput(e)
      [] kind = "output" -> EncOutput(e)
      [] kind = "currency" -> EncCurrency(e)

\* a slice: length prefix (element count), then the elements in order
EncSlice(kind, s) ==
    EncUint64(Len(s)) \o Concat([i \in 1..Len(s) |-> EncElem(kind, s[i])])

\* encoding.MarshalAll / Encoder.EncodeAll: the encodings one after the other
MarshalAll(objs) == Concat(objs)

\* crypto.HashAll, the hash being represented by its input
HashAll(objs) == MarshalAll(objs)

\* ------------------------------------------------- primitive binary decoder
\* A decoder takes the unread bytes and returns ok, the value and the rest.
Fail == [ok |-> FALSE, val |-> 0, rest |-> <<>>]
Ok(v, r) == [ok |-> TRUE, val |-> v, rest |-> r]
Drop(b, n) == SubSeq(b, n + 1, Len(b))
Take(b, n) == SubSeq(b, 1, n)

\* a length prefix: 8 bytes little endian; a prefix of 2^24 or more exceeds
\* the decoder's maximum slice length and is refused
DecPrefix(b) ==
    IF Len(b) < 8 THEN Fail
    ELSE IF \E i \in 4..8 : b[i] # 0 THEN Fail
    ELSE Ok(b[1] + 256 * b[2] + 65536 * b[3], Drop(b, 8))

\* a byte slice, p being its length prefix as decoded
DecBytesAfter(p) ==
    IF ~p.ok \/ Len(p.rest) < p.val THEN Fail
    ELSE Ok(Take(p.rest, p.val), Drop(p.rest, p.val))

DecBytes(b) == DecBytesAfter(DecPrefix(b))

RECURSIVE FromBigEndian(_)
FromBigEndian(b) ==
    IF b = <<>> THEN 0 ELSE 256 * FromBigEndian(Take(b, Len(b) - 1)) + b[Len(b)]

\* the value of the big-endian bytes r as decoded
CurrencyOf(r) ==
    IF ~r.ok \/ Len(r.val) > 2 THEN Fail
    ELSE Ok(FromBigEndian(r.val), r.rest)

\* Currency.UnmarshalSia; values of more than two bytes are outside the model
DecCurrency(b) == CurrencyOf(DecBytes(b))

DecUnlockHash(b) ==
    IF Len(b) < 1 + HashLen THEN Fail
    ELSE Ok([Type |-> b[1], Hash |-> SubSeq(b, 2, 1 + HashLen)], Drop(b, 1 + HashLen))

DecInput(b) ==
    IF Len(b) < HashLen + 1 THEN Fail
    ELSE Ok([ParentID |-> Take(b, HashLen), Unlocker |-> b[HashLen + 1]],
            Drop(b, HashLen + 1))

\* an output, v and u being its Value and its UnlockHash as decoded
OutputOf(v, u) ==
    IF ~u.ok THEN Fail
    ELSE Ok([Value |-> v.val, UnlockHash |-> u.val], u.rest)

DecOutputAfter(v) ==
    IF ~v.ok THEN Fail ELSE OutputOf(v, DecUnlockHash(v.rest))

DecOutput(b) == DecOutputAfter(DecCurrency(b))

DecElem(kind, b) ==
    CASE kind = "input" -> DecInput(b)
      [] kind = "output" -> DecOutput(b)
      [] kind = "currency" -> DecCurrency(b)

\* the n elements of a slice, one after the other; e is the element decoded
RECURSIVE DecElems(_, _, _, _)
RECURSIVE DecElemsAfter(_, _, _, _)
DecElems(kind, n, b, acc) ==
    IF n = 0 THEN Ok(acc, b)
    ELSE IF b = <<>> THEN Fail
    ELSE DecElemsAfter(kind, n, acc, DecElem(kind, b))

DecElemsAfter(kind, n, acc, e) ==
    IF ~e.ok THEN Fail ELSE DecElems(kind, n - 1, e.rest, Append(acc, e.val))

\* a slice, p being its length prefix as decoded
DecSliceAfter(kind, p) ==
    IF ~p.ok THEN Fail ELSE DecElems(kind, p.val, p.rest, <<>>)

DecSlice(kind, b) == DecSliceAfter(kind, DecPrefix(b))

\* ------------------------------------------------------------ transactions
\* The Extension of a transaction, by the capabilities it implements:
\*   enc  "none": not a TransactionDataEncoder
\*        "rev" : an encoder that writes the six fields last to first
\*        "fail": an encoder whose methods return an error
\*   val  "none": not a TransactionValidator
\*        "accept" / "reject": a validator returning nil / an error
NilExtension == [enc |-> "none", val |-> "none"]
RevExtension == [enc |-> "rev", val |-> "none"]
Extensions ==
    { NilExtension, RevExtension,
      [enc |-> "fail", val |-> "none"],
      [enc |-> "none", val |-> "accept"],
      [enc |-> "none", val |-> "reject"],
      [enc |-> "rev", val |-> "reject"] }

\* variant: every non-nil Extension is taken for an encoder
IsTransactionDataEncoderAnyExtension(ext) == ext # NilExtension

IsTransactionDataEncoder(ext) == ext.enc # "none"
IsTransactionValidator(ext) == ext.val # "none"

HashOf(x) == [i \in 1..HashLen |-> x]

SeqsUpTo(S, n) == UNION {[1..k -> S] : k \in 0..n}

InputValues == {[ParentID |-> HashOf(17), Unlocker |-> 1]}
OutputValues == {[Value |-> 10, UnlockHash |-> [Type |-> 1, Hash |-> HashOf(33)]]}
FeeValues == {2}
DataValues == {7}

FieldNames ==
    <<"CoinInputs", "CoinOutputs", "BlockStakeInputs", "BlockStakeOutputs",
      "MinerFees", "ArbitraryData">>

\* the zero value of the Transaction struct
ZeroTransaction ==
    [Version |-> 0, CoinInputs |-> <<>>, CoinOutputs |-> <<>>,
     BlockStakeInputs |-> <<>>, BlockStakeOutputs |-> <<>>,
     MinerFees |-> <<>>, ArbitraryData |-> <<>>, Extension |-> NilExtension]

\* the number of elements in the six core fields of t
Elems(t) ==
    Len(t.CoinInputs) + Len(t.CoinOutputs) + Len(t.BlockStakeInputs)
        + Len(t.BlockStakeOutputs) + Len(t.MinerFees) + Len(t.ArbitraryData)

\* _RegisteredTransactionDecoders maps a version to its decoder.  Two
\* decoders are registered at startup in the populated registry:
\*   "blob": reads the six core fields, in declaration order, from the data
\*   "rev" : the decoder of the "rev" encoder; reads them last to first and
\*           installs that encoder as the Extension of the transaction
EmptyRegistry == <<>>
FullRegistry == <<"blob", "rev">>
Registries == {EmptyRegistry, FullRegistry}

IsRegistered(reg, v) == v \in DOMAIN reg

\* the versions met: 0, the registered ones and one that is never registered
Versions == 0..(Len(FullRegistry) + 1)

\* the transactions a caller constructs
Transactions ==
    { t \in [Version : Versions,
             CoinInputs : SeqsUpTo(InputValues, MaxElems),
             CoinOutputs : SeqsUpTo(OutputValues, MaxElems),
             BlockStakeInputs : SeqsUpTo(InputValues, MaxElems),
             BlockStakeOutputs : SeqsUpTo(OutputValues, MaxElems),
             MinerFees : SeqsUpTo(FeeValues, MaxElems),
             ArbitraryData : SeqsUpTo(DataValues, MaxElems),
             Extension : Extensions] :
        Elems(t) <= MaxElems }

\* the binary encoding of one core field, by its Go type
EncField(t, name) ==
    CASE name = "CoinInputs" -> EncSlice("input", t.CoinInputs)
      [] name = "CoinOutputs" -> EncSlice("output", t.CoinOutputs)
      [] name = "BlockStakeInputs" -> EncSlice("input", t.BlockStakeInputs)
      [] name = "BlockStakeOutputs" -> EncSlice("output", t.BlockStakeOutputs)
      [] name = "MinerFees" -> EncSlice("currency", t.MinerFees)
      [] name = "ArbitraryData" -> EncBytes(t.ArbitraryData)

DecField(name, b) ==
    CASE name = "CoinInputs" -> DecSlice("input", b)
      [] name = "CoinOutputs" -> DecSlice("output", b)
      [] name = "BlockStakeInputs" -> DecSlice("input", b)
      [] name = "BlockStakeOutputs" -> DecSlice("output", b)
      [] name = "MinerFees" -> DecSlice("currency", b)
      [] name = "ArbitraryData" -> DecBytes(b)

\* variant: the version is not written
EncVersionDropped(v) == <<>>

\* TransactionVersion.MarshalSia: the single byte of the version
EncVersion(v) == <<v>>

\* TransactionDataEncoder.EncodeTransactionData of an Extension
EncodeTransactionData(ext, t) ==
    IF ext.enc = "fail" THEN [err |-> ErrEncoder, data |-> <<>>]
    ELSE [err |-> ErrNil,
          data |-> MarshalAll(<<EncField(t, "ArbitraryData"),
                                EncField(t, "MinerFees"),
                                EncField(t, "BlockStakeOutputs"),
                                EncField(t, "BlockStakeInputs"),
                                EncField(t, "CoinOutputs"),
                                EncField(t, "CoinInputs")>>)]

\* variant: without an encoder every version is written flat, as version 0 is
MarshalSiaAlwaysFlat(t) ==
    IF IsTransactionDataEncoder(t.Extension)
    THEN LET r == EncodeTransactionData(t.Extension, t) IN
         IF r.err # ErrNil THEN [err |-> r.err, out |-> <<>>]
         ELSE [err |-> ErrNil,
               out |-> MarshalAll(<<EncVersion(t.Version), EncBytes(r.data)>>)]
    ELSE [err |-> ErrNil,
          out |-> MarshalAll(<<EncVersion(t.Version),
                               EncField(t, "CoinInputs"),
                               EncField(t, "CoinOutputs"),
                               EncField(t, "BlockStakeInputs"),
                               EncField(t, "BlockStakeOutputs"),
                               EncField(t, "MinerFees"),
                               EncField(t, "ArbitraryData")>>)]

\* variant: the version byte is written before the encoder is asked
MarshalSiaVersionFirst(t) ==
    IF IsTransactionDataEncoder(t.Extension)
    THEN LET r == EncodeTransactionData(t.Extension, t) IN
         IF r.err # ErrNil THEN [err |-> r.err, out |-> EncVersion(t.Version)]
         ELSE [err |-> ErrNil,
               out |-> MarshalAll(<<EncVersion(t.Version), EncBytes(r.data)>>)]
    ELSE LET fields == MarshalAll(<<EncField(t, "CoinInputs"),
                                    EncField(t, "CoinOutputs"),
                                    EncField(t, "BlockStakeInputs"),
                                    EncField(t, "BlockStakeOutputs"),
                                    EncField(t, "MinerFees"),
                                    EncField(t, "ArbitraryData")>>) IN
         [err |-> ErrNil,
          out |-> IF t.Version = TransactionVersionZero
                  THEN EncVersion(t.Version) \o fields
                  ELSE EncVersion(t.Version) \o EncBytes(fields)]

\* Transaction.MarshalSia: the error returned and the bytes written
MarshalSia(t) ==
    IF IsTransactionDataEncoder(t.Extension)
    THEN LET r == EncodeTransactionData(t.Extension, t) IN
         IF r.err # ErrNil THEN [err |-> r.err, out |-> <<>>]
         ELSE [err |-> ErrNil,
               out |-> MarshalAll(<<EncVersion(t.Version), EncBytes(r.data)>>)]
    ELSE IF t.Version = TransactionVersionZero
    THEN [err |-> ErrNil,
          out |-> MarshalAll(<<EncVersion(t.Version),
                               EncField(t, "CoinInputs"),
                               EncField(t, "CoinOutputs"),
                               EncField(t, "BlockStakeInputs"),
                               EncField(t, "BlockStakeOutputs"),
                               EncField(t, "MinerFees"),
                               EncField(t, "ArbitraryData")>>)]
    ELSE LET rawData == MarshalAll(<<EncField(t, "CoinInputs"),
                                     EncField(t, "CoinOutputs"),
                                     EncField(t, "BlockStakeInputs"),
                                     EncField(t, "BlockStakeOutputs"),
                                     EncField(t, "MinerFees"),
                                     EncField(t, "ArbitraryData")>>) IN
         [err |-> ErrNil,
          out |-> MarshalAll(<<EncVersion(t.Version), EncBytes(rawData)>>)]

\* ---------------------------------------------------------------- registry
\* Decoder.DecodeAll on the named fields of t, in order: each field is
\* assigned as soon as it is decoded; the first failure ends the decoding.
RECURSIVE DecodeAll(_, _, _)
RECURSIVE DecodeAllAfter(_, _, _)
DecodeAll(names, b, t) ==
    IF names = <<>> THEN [err |-> ErrNil, t |-> t, rest |-> b]
    ELSE DecodeAllAfter(names, t, DecField(Head(names), b))

\* r is the first of the named fields as decoded; a field whose decoding
\* fails is taken to keep the value it had
DecodeAllAfter(names, t, r) ==
    IF ~r.ok THEN [err |-> ErrDecode, t |-> t, rest |-> <<>>]
    ELSE DecodeAll(Tail(names), r.rest, [t EXCEPT ![Head(names)] = r.val])

Reverse(s) == [i \in 1..Len(s) |-> s[Len(s) + 1 - i]]

\* unknownTransactionDecoder.DecodeTransactionData
UnknownDecodeTransactionData(v, rawData) ==
    [panic |-> NoPanic, err |-> ErrInvalidTransactionVersion,
     t |-> ZeroTransaction]

\* DecodeTransactionData of a registered decoder: the data must hold the six
\* fields and nothing else
DecodedExactly(r) ==
    IF r.err # ErrNil \/ r.rest # <<>>
    THEN [panic |-> NoPanic, err |-> ErrDecode, t |-> ZeroTransaction]
    ELSE [panic |-> NoPanic, err |-> ErrNil, t |-> r.t]

RegisteredDecodeTransactionData(kind, v, rawData) ==
    IF kind = "rev"
    THEN DecodedExactly(DecodeAll(Reverse(FieldNames), rawData,
            [ZeroTransaction EXCEPT !.Version = v, !.Extension = RevExtension]))
    ELSE DecodedExactly(DecodeAll(FieldNames, rawData,
            [ZeroTransaction EXCEPT !.Version = v, !.Extension = NilExtension]))

\* variant: a version without a decoder is read as the core fields
DecodeTransactionDataLenient(reg, v, rawData) ==
    IF IsRegistered(reg, v)
    THEN RegisteredDecodeTransactionData(reg[v], v, rawData)
    ELSE RegisteredDecodeTransactionData("blob", v, rawData)

\* variant: no fall back, the method is called on the nil decoder the lookup
\* of a missing version gives
DecodeTransactionDataNoFallback(reg, v, rawData) ==
    IF IsRegistered(reg, v)
    THEN RegisteredDecodeTransactionData(reg[v], v, rawData)
    ELSE [panic |-> PanicNilDereference, err |-> ErrNil, t |-> ZeroTransaction]

\* the lookup in the registry with the fall back to unknownTransactionDecoder
DecodeTransactionData(reg, v, rawData) ==
    IF IsRegistered(reg, v)
    THEN RegisteredDecodeTransactionData(reg[v], v, rawData)
    ELSE UnknownDecodeTransactionData(v, rawData)

\* variant: the byte is read but the version is left zero
DecVersionNotStored(b) ==
    IF b = <<>> THEN [ok |-> FALSE, val |-> 0, rest |-> <<>>]
    ELSE Ok(0, Tail(b))

\* TransactionVersion.UnmarshalSia: one byte; the version is assigned even
\* when the read fails (it is then zero)
DecVersion(b) ==
    IF b = <<>> THEN [ok |-> FALSE, val |-> 0, rest |-> <<>>]
    ELSE Ok(b[1], Tail(b))

\* UnmarshalSia from the registry lookup on: rest is what follows the data
\* slice, d what the decoder returned, which replaces the receiver
UnmarshalSiaDecoded(reg, v, rest, d) ==
    [panic |-> d.panic, err |-> d.err, t |-> d.t, rest |-> rest,
     path |-> IF IsRegistered(reg, v) THEN "registered" ELSE "unknown"]

\* UnmarshalSia of a version other than 0: rawData is the data slice as decoded
UnmarshalSiaData(reg, t, rawData) ==
    IF ~rawData.ok
    THEN [panic |-> NoPanic, err |-> ErrDecode, t |-> t, rest |-> <<>>,
          path |-> "data"]
    ELSE UnmarshalSiaDecoded(reg, t.Version, rawData.rest,
            DecodeTransactionData(reg, t.Version, rawData.val))

\* UnmarshalSia of version 0: r is the outcome of DecodeAll on the six fields
UnmarshalSiaLegacy(r) ==
    [panic |-> NoPanic, err |-> r.err, t |-> r.t, rest |-> r.rest,
     path |-> "legacy"]

\* UnmarshalSia once the version v is decoded and assigned to the receiver t
UnmarshalSiaAfterVersion(reg, t, v) ==
    IF ~v.ok
    THEN [panic |-> NoPanic, err |-> ErrDecode, t |-> t, rest |-> <<>>,
          path |-> "version"]
    ELSE IF t.Version = TransactionVersionZero
    THEN UnmarshalSiaLegacy(DecodeAll(FieldNames, v.rest, t))
    ELSE UnmarshalSiaData(reg, t, DecBytes(v.rest))

\* Transaction.UnmarshalSia on receiver t reading b: the error, the receiver
\* afterwards, the unread bytes, and the path the decoding took
UnmarshalSia(reg, t, b) ==
    UnmarshalSiaAfterVersion(reg, [t EXCEPT !.Version = DecVersion(b).val],
                             DecVersion(b))

\* -------------------------------------------------------------------- JSON
\* A JSON document is modelled by its parse: valid says whether the text is
\* well-formed JSON, obj is the object it denotes, a function from its keys
\* to their values.  A key with the value null is an absent key.
EmptyObject == [k \in {} |-> 0]
InvalidJSON == [valid |-> FALSE, obj |-> EmptyObject]
Object(o) == [valid |-> TRUE, obj |-> o]

\* the keys of jsonLegacyTransactionVersion and the fields they carry
JSONKeys ==
    <<"coininputs", "coinoutputs", "blockstakeinputs", "blockstakeoutputs",
      "minerfees", "arbitrarydata">>
OmitEmpty == {"coinoutputs", "blockstakeinputs", "blockstakeoutputs", "arbitrarydata"}

\* json.Marshal(jsonLegacyTransactionVersion{...})
MarshalLegacyJSON(t) ==
    LET present == {i \in 1..6 : JSONKeys[i] \notin OmitEmpty \/ t[FieldNames[i]] # <<>>}
    IN [k \in {JSONKeys[i] : i \in present} |->
           LET i == CHOOSE n \in 1..6 : JSONKeys[n] = k IN t[FieldNames[i]]]

\* variant: the key "arbitrarydata" is not read
UnmarshalLegacyJSONNoData(o) ==
    [i \in 1..6 |->
        IF i < 6 /\ JSONKeys[i] \in DOMAIN o THEN o[JSONKeys[i]] ELSE <<>>]

\* json.Unmarshal(data, &jsonLegacyTransactionVersion): unknown keys are
\* ignored and absent keys leave the zero value
UnmarshalLegacyJSON(o) ==
    [i \in 1..6 |-> IF JSONKeys[i] \in DOMAIN o THEN o[JSONKeys[i]] ELSE <<>>]

\* TransactionDataEncoder.JSONEncodeTransactionData of an Extension: the
\* "rev" encoder writes the six fields, last to first, under one key
JSONEncodeTransactionData(ext, t) ==
    IF ext.enc = "fail" THEN [err |-> ErrEncoder, data |-> InvalidJSON]
    ELSE [err |-> ErrNil,
          data |-> Object([k \in {"rev"} |->
                      [i \in 1..6 |-> t[FieldNames[7 - i]]]])]

\* variant: without an encoder only version 0 gets the legacy data
MarshalJSONNoFallback(t) ==
    LET r == IF IsTransactionDataEncoder(t.Extension)
             THEN JSONEncodeTransactionData(t.Extension, t)
             ELSE IF t.Version = TransactionVersionZero
             THEN [err |-> ErrNil, data |-> Object(MarshalLegacyJSON(t))]
             ELSE [err |-> ErrInvalidTransactionVersion, data |-> InvalidJSON]
    IN IF r.err # ErrNil THEN [err |-> r.err, doc |-> InvalidJSON]
       ELSE [err |-> ErrNil,
             doc |-> Object([k \in {"version", "data"} |->
                               IF k = "version" THEN t.Version ELSE r.data])]

\* Transaction.MarshalJSON: the error and the document returned
MarshalJSON(t) ==
    LET r == IF IsTransactionDataEncoder(t.Extension)
             THEN JSONEncodeTransactionData(t.Extension, t)
             ELSE [err |-> ErrNil, data |-> Object(MarshalLegacyJSON(t))]
    IN IF r.err # ErrNil THEN [err |-> r.err, doc |-> InvalidJSON]
       ELSE [err |-> ErrNil,
             doc |-> Object([k \in {"version", "data"} |->
                               IF k = "version" THEN t.Version ELSE r.data])]

\* unknownTransactionDecoder.JSONDecodeTransactionData
UnknownJSONDecodeTransactionData(v, data) ==
    [panic |-> NoPanic, err |-> ErrInvalidTransactionVersion,
     t |-> ZeroTransaction]

\* JSONDecodeTransactionData of a registered decoder
RegisteredJSONDecodeTransactionData(kind, v, data) ==
    IF ~data.valid THEN [panic |-> NoPanic, err |-> ErrJSON, t |-> ZeroTransaction]
    ELSE IF kind = "rev"
    THEN IF "rev" \notin DOMAIN data.obj
         THEN [panic |-> NoPanic, err |-> ErrJSON, t |-> ZeroTransaction]
         ELSE LET f == data.obj["rev"] IN
              [panic |-> NoPanic, err |-> ErrNil,
               t |-> [Version |-> v, CoinInputs |-> f[6], CoinOutputs |-> f[5],
                      BlockStakeInputs |-> f[4], BlockStakeOutputs |-> f[3],
                      MinerFees |-> f[2], ArbitraryData |-> f[1],
                      Extension |-> RevExtension]]
    ELSE LET f == UnmarshalLegacyJSON(data.obj) IN
         [panic |-> NoPanic, err |-> ErrNil,
          t |-> [Version |-> v, CoinInputs |-> f[1], CoinOutputs |-> f[2],
                 BlockStakeInputs |-> f[3], BlockStakeOutputs |-> f[4],
                 MinerFees |-> f[5], ArbitraryData |-> f[6],
                 Extension |-> NilExtension]]

\* the lookup in the registry with the fall back to unknownTransactionDecoder
JSONDecodeTransactionData(reg, v, data) ==
    IF IsRegistered(reg, v)
    THEN RegisteredJSONDecodeTransactionData(reg[v], v, data)
    ELSE UnknownJSONDecodeTransactionData(v, data)

\* Transaction.UnmarshalJSON on receiver t: the error, the receiver
\* afterwards and the path the decoding took.  An envelope without "version"
\* has version 0; one without "data" has an empty RawMessage.
UnmarshalJSON(reg, t, doc) ==
    IF ~doc.valid THEN [panic |-> NoPanic, err |-> ErrJSON, t |-> t, path |-> "envelope"]
    ELSE LET version == IF "version" \in DOMAIN doc.obj
                        THEN doc.obj["version"] ELSE 0
             data == IF "data" \in DOMAIN doc.obj
                     THEN doc.obj["data"] ELSE InvalidJSON
         IN IF version = TransactionVersionZero
            THEN IF ~data.valid
                 THEN [panic |-> NoPanic, err |-> ErrJSON, t |-> t,
                       path |-> "legacy"]
                 ELSE LET f == UnmarshalLegacyJSON(data.obj) IN
                      [panic |-> NoPanic, err |-> ErrNil,
                       t |-> [t EXCEPT !.Version = version,
                                       !.CoinInputs = f[1],
                                       !.CoinOutputs = f[2],
                                       !.BlockStakeInputs = f[3],
                                       !.BlockStakeOutputs = f[4],
                                       !.MinerFees = f[5],
                                       !.ArbitraryData = f[6]],
                       path |-> "legacy"]
            ELSE LET d == JSONDecodeTransactionData(reg, version, data) IN
                 [panic |-> d.panic, err |-> d.err, t |-> d.t,
                  path |-> IF IsRegistered(reg, version)
                           THEN "registered" ELSE "unknown"]

\* ------------------------------------------------------------- identifiers
\* variant: every version hashes what MarshalSia writes
IDWithVersion(t) == MarshalSia(t).out

\* Transaction.ID: the input of the hash
ID(t) ==
    IF t.Version = TransactionVersionZero
    THEN HashAll(<<EncField(t, "CoinInputs"),
                   EncField(t, "CoinOutputs"),
                   EncField(t, "BlockStakeInputs"),
                   EncField(t, "BlockStakeOutputs"),
                   EncField(t, "MinerFees"),
                   EncField(t, "ArbitraryData")>>)
    ELSE MarshalSia(t).out

\* variant: the coin output ID is tagged with the blockstake specifier
CoinOutputIDWrongSpecifier(t, i) ==
    IF t.Version = TransactionVersionZero
    THEN HashAll(<<SpecifierBlockStakeOutput,
                   EncField(t, "CoinInputs"),
                   EncField(t, "CoinOutputs"),
                   EncField(t, "BlockStakeInputs"),
                   EncField(t, "BlockStakeOutputs"),
                   EncField(t, "MinerFees"),
                   EncField(t, "ArbitraryData"),
                   EncUint64(i)>>)
    ELSE HashAll(<<SpecifierBlockStakeOutput, MarshalSia(t).out, EncUint64(i)>>)

\* Transaction.CoinOutputID: the input of the hash
CoinOutputID(t, i) ==
    IF t.Version = TransactionVersionZero
    THEN HashAll(<<SpecifierCoinOutput,
                   EncField(t, "CoinInputs"),
                   EncField(t, "CoinOutputs"),
                   EncField(t, "BlockStakeInputs"),
                   EncField(t, "BlockStakeOutputs"),
                   EncField(t, "MinerFees"),
                   EncField(t, "ArbitraryData"),
                   EncUint64(i)>>)
    ELSE HashAll(<<SpecifierCoinOutput, MarshalSia(t).out, EncUint64(i)>>)

\* Transaction.BlockStakeOutputID: the input of the hash
BlockStakeOutputID(t, i) ==
    IF t.Version = TransactionVersionZero
    THEN HashAll(<<SpecifierBlockStakeOutput,
                   EncField(t, "CoinInputs"),
                   EncField(t, "CoinOutputs"),
                   EncField(t, "BlockStakeInputs"),
                   EncField(t, "BlockStakeOutputs"),
                   EncField(t, "MinerFees"),
                   EncField(t, "ArbitraryData"),
                   EncUint64(i)>>)
    ELSE HashAll(<<SpecifierBlockStakeOutput, MarshalSia(t).out, EncUint64(i)>>)

\* -------------------------------------------------------------- validation
\* the validation contexts handed to ValidateTransaction
Contexts ==
    { [CurrentBlockHeight |-> 1, BlockSizeLimit |-> 50],
      [CurrentBlockHeight |-> 1, BlockSizeLimit |-> 2000] }

\* TransactionValidator.ValidateTransaction of an Extension: the call made
\* and the error returned
ExtensionValidateTransaction(ext, ctx, t) ==
    [err |-> IF ext.val = "reject" THEN ErrRejected ELSE ErrNil,
     calls |-> <<[validator |-> "extension", ctx |-> ctx, t |-> t]>>]

\* defaultTransactionValidation: the transaction must fit the block size limit
defaultTransactionValidation(ctx, t) ==
    [err |-> IF Len(MarshalSia(t).out) > ctx.BlockSizeLimit
             THEN ErrTooLarge ELSE ErrNil,
     calls |-> <<[validator |-> "default", ctx |-> ctx, t |-> t]>>]

\* variant: the default validation runs before the Extension's validator
ValidateTransactionMerged(t, ctx) ==
    IF IsTransactionValidator(t.Extension)
    THEN LET d == defaultTransactionValidation(ctx, t)
             e == ExtensionValidateTransaction(t.Extension, ctx, t)
         IN [err |-> IF d.err # ErrNil THEN d.err ELSE e.err,
             calls |-> d.calls \o e.calls]
    ELSE defaultTransactionValidation(ctx, t)

\* Transaction.ValidateTransaction
ValidateTransaction(t, ctx) ==
    IF IsTransactionValidator(t.Extension)
    THEN ExtensionValidateTransaction(t.Extension, ctx, t)
    ELSE defaultTransactionValidation(ctx, t)

\* variant: version 0 is looked up in the registry like any other
IsStandardTransactionNoLegacy(reg, t) ==
    IF ~IsRegistered(reg, t.Version) THEN ErrInvalidTransactionVersion
    ELSE ErrNil

\* Transaction.IsStandardTransaction
IsStandardTransaction(reg, t) ==
    IF t.Version = TransactionVersionZero THEN ErrNil
    ELSE IF ~IsRegistered(reg, t.Version) THEN ErrInvalidTransactionVersion
    ELSE ErrNil

\* --------------------------------------------------------------- short IDs
\* An unsigned integer of 64 bits is held as its bits: a function from the
\* bit positions 0..63, 0 being the least significant, to 0 or 1.  A uint16
\* is such a value whose bits 16..63 are zero.
Uint64Bits == 64
Uint16Bits == 16
BitPositions == 0..(Uint64Bits - 1)

Zero64 == [i \in BitPositions |-> 0]

\* the value of a hexadecimal literal, its digits given most significant first
Hex(digits) ==
    [i \in BitPositions |->
        IF i \div 4 < Len(digits)
        THEN (digits[Len(digits) - (i \div 4)] \div (2 ^ (i % 4))) % 2
        ELSE 0]

\* the value of a number below 2^30
U64(n) == [i \in BitPositions |-> IF i < 30 THEN (n \div (2 ^ i)) % 2 ELSE 0]

\* 2^k and 2^k - 1
Pow2(k) == [i \in BitPositions |-> IF i = k THEN 1 ELSE 0]
Pow2Minus1(k) == [i \in BitPositions |-> IF i < k THEN 1 ELSE 0]

\* the operators & | << >> of Go on uint64, and the comparisons > 0 and <
And(a, b) == [i \in BitPositions |-> a[i] * b[i]]
Or(a, b) == [i \in BitPositions |-> IF a[i] + b[i] > 0 THEN 1 ELSE 0]
Shl(a, n) == [i \in BitPositions |-> IF i >= n THEN a[i - n] ELSE 0]
Shr(a, n) == [i \in BitPositions |-> IF i + n < Uint64Bits THEN a[i + n] ELSE 0]
Positive(a) == \E i \in BitPositions : a[i] = 1
Less(a, b) ==
    \E i \in BitPositions :
        /\ a[i] < b[i]
        /\ \A j \in BitPositions : j > i => a[j] = b[j]

\* the conversion uint16(x): the low 16 bits
Uint16(a) == [i \in BitPositions |-> IF i < Uint16Bits THEN a[i] ELSE 0]

blockHeightOOBMask == Hex(<<15, 15, 15, 12, 0, 0, 0, 0, 0, 0, 0, 0, 0, 0, 0, 0>>)
txShortIDBlockHeightShift == 14
txSeqIndexOOBMask == Hex(<<12, 0, 0, 0>>)
txSeqIndexMaxMask == Hex(<<3, 15, 15, 15>>)

\* variant: the sequence ID is not checked
NewTransactionShortIDUnchecked(height, txSequenceID) ==
    IF Positive(And(height, blockHeightOOBMask))
    THEN [panic |-> PanicBlockHeight, id |-> Zero64]
    ELSE [panic |-> NoPanic,
          id |-> Or(Shl(height, txShortIDBlockHeightShift),
                    And(txSequenceID, txSeqIndexMaxMask))]

\* variant: the sequence ID is packed above the block height
NewTransactionShortIDSeqHigh(height, txSequenceID) ==
    IF Positive(And(height, blockHeightOOBMask))
    THEN [panic |-> PanicBlockHeight, id |-> Zero64]
    ELSE IF Positive(And(txSequenceID, txSeqIndexOOBMask))
    THEN [panic |-> PanicSequenceID, id |-> Zero64]
    ELSE [panic |-> NoPanic,
          id |-> Or(Shl(And(txSequenceID, txSeqIndexMaxMask),
                        Uint64Bits - txShortIDBlockHeightShift),
                    height)]

\* NewTransactionShortID: the panic raised, or the short ID returned
NewTransactionShortID(height, txSequenceID) ==
    IF Positive(And(height, blockHeightOOBMask))
    THEN [panic |-> PanicBlockHeight, id |-> Zero64]
    ELSE IF Positive(And(txSequenceID, txSeqIndexOOBMask))
    THEN [panic |-> PanicSequenceID, id |-> Zero64]
    ELSE [panic |-> NoPanic,
          id |-> Or(Shl(height, txShortIDBlockHeightShift),
                    And(txSequenceID, txSeqIndexMaxMask))]

\* TransactionShortID.BlockHeight
BlockHeight(txsid) == Shr(txsid, txShortIDBlockHeightShift)

\* variant: the low 16 bits are returned unmasked
TransactionSequenceIndexUnmasked(txsid) == Uint16(txsid)

\* TransactionShortID.TransactionSequenceIndex
TransactionSequenceIndex(txsid) == Uint16(And(txsid, txSeqIndexMaxMask))

\* encoding.EncUint64 of a value held as its bits: 8 bytes, little endian
EncUint64Bits(x) ==
    [k \in 1..8 |->
        x[8 * k - 8] + 2 * x[8 * k - 7] + 4 * x[8 * k - 6] + 8 * x[8 * k - 5]
            + 16 * x[8 * k - 4] + 32 * x[8 * k - 3] + 64 * x[8 * k - 2]
            + 128 * x[8 * k - 1]]

\* encoding.DecUint64: the value of 8 bytes, little endian
DecUint64(b) ==
    [i \in BitPositions |-> (b[(i \div 8) + 1] \div (2 ^ (i % 8))) % 2]

\* TransactionShortID.MarshalSia: the bytes written
ShortIDMarshalSia(txsid) == EncUint64Bits(txsid)

ErrEOF == "EOF"

\* One call r.Read(p) on a reader with the bytes data left, which delivers n
\* of them (1 <= n <= Len(p), n <= Len(data)); a reader with nothing left
\* delivers none and returns io.EOF.
Read(p, data, n) ==
    IF data = <<>> THEN [n |-> 0, err |-> ErrEOF, p |-> p]
    ELSE [n |-> n, err |-> ErrNil, p |-> Take(data, n) \o Drop(p, n)]

\* variant: the bytes are read but the receiver is not assigned
ShortIDUnmarshalSiaNotAssigned(txsid, data, n) ==
    [err |-> Read(<<0, 0, 0, 0, 0, 0, 0, 0>>, data, n).err, txsid |-> txsid]

\* TransactionShortID.UnmarshalSia on the receiver txsid: make([]byte, 8), one
\* Read whose count is dropped, then DecUint64 of the buffer
ShortIDUnmarshalSia(txsid, data, n) ==
    LET r == Read(<<0, 0, 0, 0, 0, 0, 0, 0>>, data, n) IN
    IF r.err # ErrNil THEN [err |-> r.err, txsid |-> txsid]
    ELSE [err |-> ErrNil, txsid |-> DecUint64(r.p)]

\* -------------------------------------------------------------- specifiers
\* A Specifier is an array of SpecifierLen bytes; a Go string is the sequence
\* of its bytes.
ZeroSpecifier == [i \in 1..SpecifierLen |-> 0]

\* the index at which the loop of Specifier.String stops: at the first zero
\* byte, or at the last index when the range is exhausted
RECURSIVE StringLoop(_, _)
StringLoop(s, i) ==
    IF s[i + 1] = 0 THEN i
    ELSE IF i + 1 = SpecifierLen THEN i
    ELSE StringLoop(s, i + 1)

\* Specifier.String: string(s[:i])
SpecifierString(s) == Take(s, StringLoop(s, 0))

ErrInvalidSpecifier == "invalid specifier"

\* copy(dst, src): the first min(len) elements are overwritten
Copy(dst, src) ==
    [i \in 1..Len(dst) |-> IF i <= Len(src) THEN src[i] ELSE dst[i]]

\* Specifier.LoadString on the receiver s: the error and the receiver after
LoadString(s, str) ==
    IF Len(str) > SpecifierLen THEN [err |-> ErrInvalidSpecifier, s |-> s]
    ELSE [err |-> ErrNil, s |-> Copy(s, str)]

\* A JSON value handed to Specifier.UnmarshalJSON: a string (isString) with
\* the bytes str, or a value that is no string
JSONString(str) == [isString |-> TRUE, str |-> str]
JSONNumber == [isString |-> FALSE, str |-> <<>>]

\* Specifier.UnmarshalJSON on the receiver s
SpecifierUnmarshalJSON(s, b) ==
    IF ~b.isString THEN [err |-> ErrJSON, s |-> s]
    ELSE LoadString(s, b.str)

\* --------------------------------------------------------------------- sums
\* Currency.Add: a Currency is a non-negative number of arbitrary precision
CurrencyAdd(x, y) == x + y

\* the loops of CoinOutputSum: sum, then the values left to add from the coin
\* outputs, then those left from the miner fees
RECURSIVE CoinOutputSumFrom(_, _, _)
CoinOutputSumFrom(sum, values, fees) ==
    IF values # <<>>
    THEN CoinOutputSumFrom(CurrencyAdd(sum, Head(values)), Tail(values), fees)
    ELSE IF fees # <<>>
    THEN CoinOutputSumFrom(CurrencyAdd(sum, Head(fees)), values, Tail(fees))
    ELSE sum

\* variant: the miner fees are left out
CoinOutputSumNoFees(t) ==
    CoinOutputSumFrom(0, [i \in 1..Len(t.CoinOutputs) |-> t.CoinOutputs[i].Value],
                      <<>>)

\* Transaction.CoinOutputSum
CoinOutputSum(t) ==
    CoinOutputSumFrom(0, [i \in 1..Len(t.CoinOutputs) |-> t.CoinOutputs[i].Value],
                      t.MinerFees)

\* ------------------------------------------------------------ state machine
VARIABLES
    registry,   \* _RegisteredTransactionDecoders, fixed after startup
    tx,         \* the Transaction the operations are called on
    w,          \* the byte buffer MarshalSia writes and UnmarshalSia reads
    sent,       \* <<t>> while w holds what MarshalSia wrote for t, else <<>>
    js,         \* <<doc>>: the JSON document MarshalJSON returned, else <<>>
    rd,         \* <<r>>: the last decoding, its input and its outcome
    txsid,      \* the TransactionShortID the short-ID operations are called on
    specifier,  \* the Specifier the specifier operations are called on
    par,        \* the calls two workers run side by side, and how far each is
    last        \* the last operation and what it returned

vars == <<registry, tx, w, js, sent, rd, txsid, specifier, par, last>>

Indexes == 0..MaxIndex

\* the goroutines that call into the package side by side
Workers == {1, 2}

\* no parallel calls are under way
ParIdle ==
    [calls |-> <<>>, pc |-> [i \in Workers |-> "idle"],
     decoder |-> [i \in Workers |-> "none"], res |-> [i \in Workers |-> 0],
     mixed |-> FALSE]

Init ==
    /\ registry \in Registries
    /\ tx = ZeroTransaction
    /\ w = <<>>
    /\ js = <<>>
    /\ sent = <<>>
    /\ rd = <<>>
    /\ txsid = Zero64
    /\ specifier = ZeroSpecifier
    /\ par = ParIdle
    /\ last = [op |-> "init"]

\* transactions with several coin outputs and miner fees, built as well
Output(v) == [Value |-> v, UnlockHash |-> [Type |-> 1, Hash |-> HashOf(33)]]
SumTransactions ==
    { [ZeroTransaction EXCEPT !.Version = v, !.Extension = e,
                              !.CoinOutputs = outs, !.MinerFees = fees,
                              !.CoinInputs = other[1],
                              !.BlockStakeOutputs = other[2]] :
        v \in {0, 1}, e \in {NilExtension, RevExtension},
        outs \in {<<Output(10), Output(5)>>, <<Output(5), Output(10)>>},
        fees \in {<<2>>, <<2, 3>>, <<3, 2>>},
        other \in {<<<<>>, <<>>>>,
                   <<<<[ParentID |-> HashOf(17), Unlocker |-> 1]>>, <<Output(10)>>>>} }

\* a caller builds the transaction the run works on
Construct(t) ==
    /\ last.op = "init"
    /\ tx' = t
    /\ w' = <<>>
    /\ js' = <<>>
    /\ sent' = <<>>
    /\ rd' = <<>>
    /\ last' = [op |-> "Construct", panic |-> NoPanic]
    /\ UNCHANGED <<par, registry, txsid, specifier>>

\* tx.MarshalSia(w) on an empty buffer
DoMarshalSia ==
    /\ last.op \in {"Construct", "UnmarshalSia"}
    /\ LET r == MarshalSia(tx) IN
        /\ w' = r.out
        /\ sent' = <<tx>>
        /\ last' = [op |-> "MarshalSia", panic |-> NoPanic, err |-> r.err]
    /\ UNCHANGED <<par, registry, tx, js, rd, txsid, specifier>>

\* the places a peer cuts a buffer short
Cuts(b) == {0, 1, 9, Len(b) - 1} \cap (0..(Len(b) - 1))

\* the buffer is replaced by bytes from a peer: what was written, cut short
Truncate(n) ==
    /\ sent # <<>>
    /\ rd = <<>>
    /\ n \in Cuts(w)
    /\ w' = Take(w, n)
    /\ sent' = <<>>
    /\ last' = [op |-> "Truncate", panic |-> NoPanic]
    /\ UNCHANGED <<par, registry, tx, js, rd, txsid, specifier>>

\* the buffer is replaced by bytes from a peer: what was written, under
\* another version byte
Reversion(v) ==
    /\ sent # <<>>
    /\ rd = <<>>
    /\ w # <<>>
    /\ v # w[1]
    /\ w' = <<v>> \o Tail(w)
    /\ sent' = <<>>
    /\ last' = [op |-> "Reversion", panic |-> NoPanic]
    /\ UNCHANGED <<par, registry, tx, js, rd, txsid, specifier>>

\* UnmarshalSia(w), on a fresh Transaction or on tx as it is
DoUnmarshalSia(fresh) ==
    /\ last.op \in {"MarshalSia", "Truncate", "Reversion"}
    /\ rd = <<>>
    /\ LET recv == IF fresh THEN ZeroTransaction ELSE tx
           r == UnmarshalSia(registry, recv, w)
       IN /\ tx' = r.t
          /\ rd' = <<[codec |-> "sia", b |-> w, fresh |-> fresh, before |-> recv, err |-> r.err,
                      rest |-> r.rest, path |-> r.path]>>
          /\ last' = [op |-> "UnmarshalSia", panic |-> r.panic, err |-> r.err]
    /\ UNCHANGED <<par, registry, w, js, sent, txsid, specifier>>

\* tx.MarshalJSON()
DoMarshalJSON ==
    /\ last.op \in {"Construct", "UnmarshalJSON"}
    /\ LET r == MarshalJSON(tx) IN
        /\ js' = <<r.doc>>
        /\ sent' = <<tx>>
        /\ last' = [op |-> "MarshalJSON", panic |-> NoPanic, err |-> r.err]
    /\ UNCHANGED <<par, registry, tx, w, rd, txsid, specifier>>

\* the document is replaced by one from a peer: the same envelope with
\* another "version"
ReversionJSON(v) ==
    /\ last.op = "MarshalJSON"
    /\ rd = <<>>
    /\ js[1].valid
    /\ v # js[1].obj["version"]
    /\ js' = <<Object([k \in {"version", "data"} |->
                         IF k = "version" THEN v ELSE js[1].obj["data"]])>>
    /\ sent' = <<>>
    /\ last' = [op |-> "ReversionJSON", panic |-> NoPanic]
    /\ UNCHANGED <<par, registry, tx, w, rd, txsid, specifier>>

\* UnmarshalJSON(js), on a fresh Transaction or on tx as it is
DoUnmarshalJSON(fresh) ==
    /\ last.op \in {"MarshalJSON", "ReversionJSON"}
    /\ rd = <<>>
    /\ LET recv == IF fresh THEN ZeroTransaction ELSE tx
           r == UnmarshalJSON(registry, recv, js[1])
       IN /\ tx' = r.t
          /\ rd' = <<[codec |-> "json", b |-> js[1], fresh |-> fresh,
                      before |-> recv, err |-> r.err, rest |-> <<>>,
                      path |-> r.path]>>
          /\ last' = [op |-> "UnmarshalJSON", panic |-> r.panic, err |-> r.err]
    /\ UNCHANGED <<par, registry, w, js, sent, txsid, specifier>>

\* tx.ID()
DoID ==
    /\ last.op = "Construct"
    /\ last' = [op |-> "ID", panic |-> NoPanic, id |-> ID(tx)]
    /\ UNCHANGED <<par, registry, tx, w, js, sent, rd, txsid, specifier>>

\* tx.CoinOutputID and tx.BlockStakeOutputID at the indexes i and j
DoOutputIDs(i, j) ==
    /\ last.op = "Construct"
    /\ last' = [op |-> "OutputIDs", panic |-> NoPanic, i |-> i, j |-> j,
                coin |-> <<CoinOutputID(tx, i), CoinOutputID(tx, j)>>,
                stake |-> <<BlockStakeOutputID(tx, i), BlockStakeOutputID(tx, j)>>]
    /\ UNCHANGED <<par, registry, tx, w, js, sent, rd, txsid, specifier>>

\* tx.ValidateTransaction(ctx)
DoValidateTransaction(ctx) ==
    /\ last.op = "Construct"
    /\ LET r == ValidateTransaction(tx, ctx) IN
        last' = [op |-> "ValidateTransaction", panic |-> NoPanic, ctx |-> ctx,
                 err |-> r.err, calls |-> r.calls]
    /\ UNCHANGED <<par, registry, tx, w, js, sent, rd, txsid, specifier>>

\* tx.IsStandardTransaction()
DoIsStandardTransaction ==
    /\ last.op = "Construct"
    /\ last' = [op |-> "IsStandardTransaction", panic |-> NoPanic,
                err |-> IsStandardTransaction(registry, tx)]
    /\ UNCHANGED <<par, registry, tx, w, js, sent, rd, txsid, specifier>>

\* tx.CoinOutputSum()
DoCoinOutputSum ==
    /\ last.op = "Construct"
    /\ last' = [op |-> "CoinOutputSum", panic |-> NoPanic, sum |-> CoinOutputSum(tx)]
    /\ UNCHANGED <<par, registry, tx, w, js, sent, rd, txsid, specifier>>

\* the block heights and the sequence IDs (uint16) handed to
\* NewTransactionShortID, and the values converted to a TransactionShortID
Heights ==
    { Zero64, U64(1), U64(12345), Pow2(36), Pow2Minus1(50), Pow2(50), Pow2(63),
      Pow2Minus1(Uint64Bits) }
SequenceIDs ==
    { Zero64, U64(1), U64(42), U64(256), Pow2Minus1(14), Pow2(14), Pow2(15),
      Pow2Minus1(Uint16Bits) }
RawShortIDs ==
    { Pow2Minus1(Uint64Bits), Pow2(63),
      Hex(<<0, 1, 0, 2, 0, 3, 0, 4, 0, 5, 0, 6, 0, 7, 0, 8>>) }

\* txsid = NewTransactionShortID(height, txSequenceID); a panic ends the run
DoNewTransactionShortID(height, txSequenceID) ==
    /\ last.op = "init"
    /\ LET r == NewTransactionShortID(height, txSequenceID) IN
        /\ txsid' = IF r.panic = NoPanic THEN r.id ELSE txsid
        /\ last' = [op |-> "NewTransactionShortID", height |-> height,
                    txSequenceID |-> txSequenceID, panic |-> r.panic]
    /\ UNCHANGED <<par, registry, tx, w, js, sent, rd, specifier>>

\* txsid = TransactionShortID(x), the conversion of any uint64
DoTransactionShortID(x) ==
    /\ last.op = "init"
    /\ txsid' = x
    /\ last' = [op |-> "TransactionShortID", panic |-> NoPanic]
    /\ UNCHANGED <<par, registry, tx, w, js, sent, rd, specifier>>

\* txsid has just been given a value
HoldsShortID ==
    \/ last.op \in {"NewTransactionShortID", "TransactionShortID"}
          /\ last.panic = NoPanic
    \/ last.op = "ShortIDUnmarshalSia" /\ last.err = ErrNil

\* txsid.BlockHeight()
DoBlockHeight ==
    /\ HoldsShortID
    /\ last' = [op |-> "BlockHeight", panic |-> NoPanic, val |-> BlockHeight(txsid), of |-> last]
    /\ UNCHANGED <<par, registry, tx, w, js, sent, rd, txsid, specifier>>

\* txsid.TransactionSequenceIndex()
DoTransactionSequenceIndex ==
    /\ HoldsShortID
    /\ last' = [op |-> "TransactionSequenceIndex", panic |-> NoPanic,
                val |-> TransactionSequenceIndex(txsid), of |-> last]
    /\ UNCHANGED <<par, registry, tx, w, js, sent, rd, txsid, specifier>>

\* txsid.MarshalSia(w) on an empty buffer
DoShortIDMarshalSia ==
    /\ last.op \in {"NewTransactionShortID", "TransactionShortID"}
    /\ last.panic = NoPanic
    /\ w' = ShortIDMarshalSia(txsid)
    /\ last' = [op |-> "ShortIDMarshalSia", panic |-> NoPanic, err |-> ErrNil]
    /\ UNCHANGED <<par, registry, tx, js, sent, rd, txsid, specifier>>

\* how many of the bytes written a reader has left, and how many of those
\* its first Read may deliver
Remaining == {0, 3, 7, 8}
Delivered(k) == IF k = 0 THEN {0} ELSE {3, 7, 8} \cap (1..k)

\* UnmarshalSia(r) of a short ID, on a fresh TransactionShortID or on txsid as
\* it is; the reader r has the first k bytes of w left and its first Read
\* delivers n of them
DoShortIDUnmarshalSia(k, n, fresh) ==
    /\ last.op = "ShortIDMarshalSia"
    /\ n \in Delivered(k)
    /\ LET recv == IF fresh THEN Zero64 ELSE txsid
           r == ShortIDUnmarshalSia(recv, Take(w, k), n)
       IN /\ txsid' = r.txsid
          /\ rd' = <<[codec |-> "shortid", b |-> Take(w, k), n |-> n,
                      fresh |-> fresh, before |-> recv, written |-> txsid,
                      err |-> r.err]>>
          /\ last' = [op |-> "ShortIDUnmarshalSia", panic |-> NoPanic, err |-> r.err]
    /\ UNCHANGED <<par, registry, tx, w, js, sent, specifier>>

\* the strings handed to LoadString, and the JSON values handed to
\* Specifier.UnmarshalJSON
SpecifierStrings ==
    { <<>>, <<97, 98>>, <<0, 120>>, Take(SpecifierCoinOutput, 11),
      [i \in 1..SpecifierLen |-> 96 + i],
      [i \in 1..(SpecifierLen + 1) |-> 96 + i] }
SpecifierJSONValues == {JSONString(str) : str \in SpecifierStrings} \cup {JSONNumber}

\* the number of decoding calls made on specifier so far
Loads == IF last.op \in {"LoadString", "SpecifierUnmarshalJSON"} THEN last.n ELSE 0

\* specifier.LoadString(str)
DoLoadString(str) ==
    /\ last.op \in {"init", "LoadString", "SpecifierUnmarshalJSON"}
    /\ Loads < MaxLoads
    /\ LET r == LoadString(specifier, str) IN
        /\ specifier' = r.s
        /\ last' = [op |-> "LoadString", panic |-> NoPanic, isString |-> TRUE, str |-> str,
                    err |-> r.err, before |-> specifier, n |-> Loads + 1]
    /\ UNCHANGED <<par, registry, tx, w, js, sent, rd, txsid>>

\* specifier.UnmarshalJSON(b)
DoSpecifierUnmarshalJSON(b) ==
    /\ last.op \in {"init", "LoadString", "SpecifierUnmarshalJSON"}
    /\ Loads < MaxLoads
    /\ LET r == SpecifierUnmarshalJSON(specifier, b) IN
        /\ specifier' = r.s
        /\ last' = [op |-> "SpecifierUnmarshalJSON", panic |-> NoPanic, isString |-> b.isString,
                    str |-> b.str, err |-> r.err, before |-> specifier,
                    n |-> Loads + 1]
    /\ UNCHANGED <<par, registry, tx, w, js, sent, rd, txsid>>

\* specifier.String()
DoSpecifierString ==
    /\ last.op \in {"init", "LoadString", "SpecifierUnmarshalJSON"}
    /\ last' = [op |-> "SpecifierString", panic |-> NoPanic, val |-> SpecifierString(specifier)]
    /\ UNCHANGED <<par, registry, tx, w, js, sent, rd, txsid, specifier>>

\* ---------------------------------------------------------- parallel calls
\* the Transaction instances the workers call on: one per version, that of
\* the version with the "rev" decoder carrying its encoder
ParTransactions ==
    { [ZeroTransaction EXCEPT !.Version = v,
                              !.CoinOutputs = <<Output(10)>>,
                              !.MinerFees = <<2>>,
                              !.Extension = IF IsRegistered(FullRegistry, v)
                                               /\ FullRegistry[v] = "rev"
                                            THEN RevExtension
                                            ELSE NilExtension] :
        v \in Versions }

\* the calls a worker makes, each the operation, the instance it is called
\* on and its argument: the operations on an instance of its own, and the
\* decodings into a fresh instance of what was encoded
ParCalls ==
    { [op |-> op, t |-> t, bytes |-> <<>>, doc |-> InvalidJSON] :
        op \in {"MarshalSia", "MarshalJSON", "ID", "ValidateTransaction",
                "IsStandardTransaction"},
        t \in ParTransactions }
    \cup { [op |-> "UnmarshalSia", t |-> ZeroTransaction,
            bytes |-> MarshalSia(t).out, doc |-> InvalidJSON] :
             t \in ParTransactions }
    \cup { [op |-> "UnmarshalJSON", t |-> ZeroTransaction,
            bytes |-> <<>>, doc |-> MarshalJSON(t).doc] :
             t \in ParTransactions }

\* what the call c returns, and leaves in its instance, when the registry
\* it reads is reg
Call(reg, c) ==
    CASE c.op = "MarshalSia" -> MarshalSia(c.t)
      [] c.op = "UnmarshalSia" -> UnmarshalSia(reg, c.t, c.bytes)
      [] c.op = "MarshalJSON" -> MarshalJSON(c.t)
      [] c.op = "UnmarshalJSON" -> UnmarshalJSON(reg, c.t, c.doc)
      [] c.op = "ID" -> ID(c.t)
      [] c.op = "ValidateTransaction" -> ValidateTransaction(c.t, CHOOSE ctx \in Contexts : TRUE)
      [] c.op = "IsStandardTransaction" -> IsStandardTransaction(reg, c.t)

\* the version the call c looks up in the registry
LookupVersion(c) ==
    CASE c.op = "UnmarshalSia" -> DecVersion(c.bytes).val
      [] c.op = "UnmarshalJSON" ->
            IF c.doc.valid /\ "version" \in DOMAIN c.doc.obj
            THEN c.doc.obj["version"] ELSE 0
      [] OTHER -> c.t.Version

\* dataDecoder, exists := _RegisteredTransactionDecoders[v], with the fall
\* back to unknownTransactionDecoder
Lookup(reg, v) == IF IsRegistered(reg, v) THEN reg[v] ELSE "unknown"

\* the registry as a call knows it that looked up v and got the decoder d
Looked(v, d) ==
    IF d \in {"none", "unknown"} THEN EmptyRegistry ELSE [x \in {v} |-> d]

\* variant: the looked-up decoder is kept in one place for all calls
SlotShared(i) == 1

\* where the call of worker i keeps the decoder it looked up: a local
\* variable of that call
Slot(i) == i

\* two workers each start a call on an instance of their own
ParStart(c1, c2) ==
    /\ last.op = "init"
    /\ par' = [ParIdle EXCEPT !.calls = <<c1, c2>>,
                              !.pc = [i \in Workers |-> "start"]]
    /\ last' = [op |-> "parallel", panic |-> NoPanic]
    /\ UNCHANGED <<registry, tx, w, js, sent, rd, txsid, specifier>>

\* worker i runs its call up to and including the read of the registry;
\* mixed records that a step was taken while the other worker was in mid-call
ParLookup(i) ==
    /\ last.op = "parallel"
    /\ par.pc[i] = "start"
    /\ par' = [par EXCEPT
                 !.pc[i] = "looked",
                 !.decoder[Slot(i)] =
                     IF par.calls[i].op \in {"UnmarshalSia", "UnmarshalJSON",
                                              "IsStandardTransaction"}
                     THEN Lookup(registry, LookupVersion(par.calls[i]))
                     ELSE @,
                 !.mixed = @ \/ \E j \in Workers \ {i} : par.pc[j] = "looked"]
    /\ UNCHANGED <<registry, tx, w, js, sent, rd, txsid, specifier, last>>

\* worker i runs the rest of its call, with the decoder it looked up
ParFinish(i) ==
    /\ last.op = "parallel"
    /\ par.pc[i] = "looked"
    /\ par' = [par EXCEPT
                 !.pc[i] = "done",
                 !.res[i] = Call(Looked(LookupVersion(par.calls[i]),
                                        par.decoder[Slot(i)]),
                                 par.calls[i]),
                 !.mixed = @ \/ \E j \in Workers \ {i} : par.pc[j] = "looked"]
    /\ UNCHANGED <<registry, tx, w, js, sent, rd, txsid, specifier, last>>

Next ==
    \/ \E t \in Transactions \cup SumTransactions : Construct(t)
    \/ DoMarshalSia
    \/ \E n \in 0..Len(w) : Truncate(n)
    \/ \E v \in Versions : Reversion(v)
    \/ \E fresh \in BOOLEAN : DoUnmarshalSia(fresh)
    \/ DoMarshalJSON
    \/ \E v \in Versions : ReversionJSON(v)
    \/ \E fresh \in BOOLEAN : DoUnmarshalJSON(fresh)
    \/ DoID
    \/ \E i, j \in Indexes : DoOutputIDs(i, j)
    \/ \E ctx \in Contexts : DoValidateTransaction(ctx)
    \/ DoIsStandardTransaction
    \/ DoCoinOutputSum
    \/ \E height \in Heights, txSequenceID \in SequenceIDs :
          DoNewTransactionShortID(height, txSequenceID)
    \/ \E x \in RawShortIDs : DoTransactionShortID(x)
    \/ DoBlockHeight
    \/ DoTransactionSequenceIndex
    \/ DoShortIDMarshalSia
    \/ \E k \in Remaining, n \in 0..8, fresh \in BOOLEAN :
          DoShortIDUnmarshalSia(k, n, fresh)
    \/ \E str \in SpecifierStrings : DoLoadString(str)
    \/ \E b \in SpecifierJSONValues : DoSpecifierUnmarshalJSON(b)
    \/ DoSpecifierString
    \/ \E c1, c2 \in ParCalls : ParStart(c1, c2)
    \/ \E i \in Workers : ParLookup(i)
    \/ \E i \in Workers : ParFinish(i)

Spec == Init /\ [][Next]_vars

\* ------------------------------------------------------------------ claims
\* the Extension a decoding of version v into a fresh Transaction leaves
InstalledExtension(reg, v) ==
    IF v # 0 /\ IsRegistered(reg, v) /\ reg[v] = "rev"
    THEN RevExtension ELSE NilExtension

KnownVersion(v) == v = 0 \/ IsRegistered(registry, v)

\* a fresh Transaction has just decoded the bytes MarshalSia wrote for sent[1]
SiaRoundTrip ==
    /\ last.op = "UnmarshalSia"
    /\ rd[1].fresh
    /\ sent # <<>>
    /\ w # <<>>

\* C1 as stated: for every transaction t whose Version is 0 or registered,
\* whatever its Extension, decoding the bytes MarshalSia wrote for t into a
\* fresh Transaction succeeds and yields t.
C1_AnyExtension ==
    (SiaRoundTrip /\ KnownVersion(sent[1].Version))
        => (last.err = ErrNil /\ tx = sent[1])

\* C1 amended: for every transaction t whose Version is 0 or registered and
\* whose Extension is the one the decoding of that Version leaves (nil for
\* Version 0), decoding the bytes MarshalSia wrote for t into a fresh
\* Transaction succeeds and yields t.
C1_RoundTrip ==
    (/\ SiaRoundTrip
     /\ KnownVersion(sent[1].Version)
     /\ sent[1].Extension = InstalledExtension(registry, sent[1].Version))
        => (last.err = ErrNil /\ tx = sent[1])

C1_Witness ==
    /\ SiaRoundTrip
    /\ sent[1].Version = 2
    /\ IsRegistered(registry, 2)
    /\ sent[1].Extension = RevExtension
    /\ sent[1].MinerFees # <<>>
    /\ tx = sent[1]

\* UnmarshalSia has just read bytes that start with a version v > 0 absent
\* from the registry
UnknownVersionSia ==
    /\ last.op = "UnmarshalSia"
    /\ rd[1].b # <<>>
    /\ rd[1].b[1] > 0
    /\ ~IsRegistered(registry, rd[1].b[1])

\* UnmarshalJSON has just read an envelope whose "version" is a v > 0 absent
\* from the registry
UnknownVersionJSON ==
    /\ last.op = "UnmarshalJSON"
    /\ rd[1].b.valid
    /\ "version" \in DOMAIN rd[1].b.obj
    /\ rd[1].b.obj["version"] > 0
    /\ ~IsRegistered(registry, rd[1].b.obj["version"])

\* C2 as stated: for every unregistered version v > 0, UnmarshalSia on bytes
\* that start with v and UnmarshalJSON on an envelope with "version" v both
\* return the invalid-version error, and neither takes the Version-0 path.
C2_AlwaysInvalidVersion ==
    /\ UnknownVersionSia =>
          (last.err = ErrInvalidTransactionVersion /\ rd[1].path # "legacy")
    /\ UnknownVersionJSON =>
          (last.err = ErrInvalidTransactionVersion /\ rd[1].path # "legacy")

\* C2 amended: for every unregistered version v > 0, UnmarshalSia on bytes
\* that start with v returns an error and never takes the Version-0 path: the
\* invalid-version error when the length-prefixed data after the version byte
\* is complete, a decoding error when it is cut short; UnmarshalJSON on an
\* envelope with "version" v returns the invalid-version error and never
\* takes the Version-0 path.
C2_UnknownVersionRejected ==
    /\ UnknownVersionSia =>
          /\ rd[1].path # "legacy"
          /\ last.err = IF DecBytes(Tail(rd[1].b)).ok
                        THEN ErrInvalidTransactionVersion ELSE ErrDecode
    /\ UnknownVersionJSON =>
          (last.err = ErrInvalidTransactionVersion /\ rd[1].path # "legacy")

C2_Witness ==
    /\ UnknownVersionSia
    /\ DecBytes(Tail(rd[1].b)).ok
    /\ last.err = ErrInvalidTransactionVersion
    /\ rd[1].path = "unknown"

\* C3 as stated: two transactions with the same Version and the same six
\* core fields get the same bytes from MarshalSia, whatever their Extensions.
C3_AnyExtension ==
    last.op = "MarshalSia" =>
        \A e \in Extensions :
            MarshalSia([tx EXCEPT !.Extension = e]) = [err |-> last.err, out |-> w]

\* C3 amended: two transactions with the same Version and the same six core
\* fields, neither of whose Extensions implements the custom encoder, get the
\* same bytes from MarshalSia.
C3_Canonical ==
    (last.op = "MarshalSia" /\ tx.Extension.enc = "none") =>
        \A e \in Extensions :
            e.enc = "none" =>
                MarshalSia([tx EXCEPT !.Extension = e]) = [err |-> last.err, out |-> w]

C3_Witness ==
    /\ last.op = "MarshalSia"
    /\ tx.Extension.enc = "none"
    /\ tx.Extension # NilExtension
    /\ tx.CoinOutputs # <<>>
    /\ w = MarshalSia([tx EXCEPT !.Extension = NilExtension]).out

\* MarshalSia has just re-encoded what a fresh Transaction decoded from the
\* whole of a byte string of a known version
SiaReencoded ==
    /\ last.op = "MarshalSia"
    /\ rd # <<>>
    /\ rd[1].codec = "sia"
    /\ rd[1].fresh
    /\ rd[1].err = ErrNil
    /\ rd[1].rest = <<>>
    /\ KnownVersion(rd[1].b[1])

C5_Standard ==
    last.op = "IsStandardTransaction" =>
        /\ (last.err = ErrNil) <=> (tx.Version = 0 \/ tx.Version \in DOMAIN registry)
        /\ last.err \in {ErrNil, ErrInvalidTransactionVersion}

C5_Witness ==
    /\ last.op = "IsStandardTransaction"
    /\ tx.Version = 0
    /\ registry = EmptyRegistry
    /\ tx.Extension # NilExtension
    /\ last.err = ErrNil

\* C6: for every transaction and all indexes i # j, the hash inputs of
\* CoinOutputID(i) and BlockStakeOutputID(i) differ, those of CoinOutputID(i)
\* and CoinOutputID(j) differ, and those of BlockStakeOutputID(i) and
\* BlockStakeOutputID(j) differ.
C6_DomainSeparation ==
    last.op = "OutputIDs" =>
        /\ last.coin[1] # last.stake[1]
        /\ last.i # last.j =>
              (last.coin[1] # last.coin[2] /\ last.stake[1] # last.stake[2])

C6_Witness ==
    /\ last.op = "OutputIDs"
    /\ last.i # last.j
    /\ tx.Version > 0
    /\ tx.CoinOutputs # <<>>

\* C7: for a Version-0 transaction the input hashed by ID is the encodings of
\* the six core fields in declaration order and no version byte: it is what
\* MarshalSia writes for the transaction without custom encoder, less the
\* first byte, and is the same for every Extension.
C7_LegacyID ==
    (last.op = "ID" /\ tx.Version = 0) =>
        /\ last.id = EncSlice("input", tx.CoinInputs)
                        \o EncSlice("output", tx.CoinOutputs)
                        \o EncSlice("input", tx.BlockStakeInputs)
                        \o EncSlice("output", tx.BlockStakeOutputs)
                        \o EncSlice("currency", tx.MinerFees)
                        \o EncBytes(tx.ArbitraryData)
        /\ last.id = Tail(MarshalSia([tx EXCEPT !.Extension = NilExtension]).out)
        /\ \A e \in Extensions : ID([tx EXCEPT !.Extension = e]) = last.id

C7_Witness ==
    /\ last.op = "ID"
    /\ tx.Version = 0
    /\ tx.Extension.enc = "rev"
    /\ tx.ArbitraryData # <<>>

\* C8: for a transaction with Version > 0 the input hashed by ID is the bytes
\* MarshalSia writes for it, version byte first, so two transactions with
\* Version > 0 that differ only in their Version have different hash inputs.
C8_VersionedID ==
    (last.op = "ID" /\ tx.Version > 0) =>
        /\ last.id = MarshalSia(tx).out
        /\ \A v \in Versions \ {0, tx.Version} :
              ID([tx EXCEPT !.Version = v]) # last.id

\* C9: every successful MarshalSia output starts with the Version byte; for
\* Version > 0 without custom encoder the rest is one length-prefixed blob
\* whose content is what the Version-0 transaction with the same six core
\* fields writes after its version byte.
C9_Framing ==
    (last.op = "MarshalSia" /\ last.err = ErrNil) =>
        /\ w # <<>>
        /\ w[1] = tx.Version
        /\ (tx.Version > 0 /\ tx.Extension.enc = "none") =>
              LET blob == DecBytes(Tail(w)) IN
              /\ blob.ok
              /\ blob.rest = <<>>
              /\ blob.val = Tail(MarshalSia([tx EXCEPT !.Version = 0]).out)

C9_Witness ==
    /\ last.op = "MarshalSia"
    /\ last.err = ErrNil
    /\ tx.Version = 3
    /\ tx.Extension.enc = "none"
    /\ tx.BlockStakeOutputs # <<>>

\* C10: ValidateTransaction invokes exactly one validator: the Extension's,
\* once, with the same context and transaction and with its result returned
\* unchanged, when the Extension implements the validator capability, and the
\* default validation otherwise.
C10_Dispatch ==
    last.op = "ValidateTransaction" =>
        /\ Len(last.calls) = 1
        /\ last.calls[1].ctx = last.ctx
        /\ last.calls[1].t = tx
        /\ tx.Extension.val # "none" =>
              /\ last.calls[1].validator = "extension"
              /\ last.err = IF tx.Extension.val = "reject" THEN ErrRejected ELSE ErrNil
        /\ tx.Extension.val = "none" =>
              /\ last.calls[1].validator = "default"
              /\ last.err = defaultTransactionValidation(last.ctx, tx).err

C10_Witness ==
    /\ last.op = "ValidateTransaction"
    /\ tx.Extension.val = "accept"
    /\ last.ctx.BlockSizeLimit = 50
    /\ tx.CoinOutputs # <<>>
    /\ last.err = ErrNil

\* the components the short-ID layout has room for
InRange(height, txSequenceID) ==
    Less(height, Pow2(50)) /\ Less(txSequenceID, Pow2(14))

\* NewTransactionShortID has just returned the short ID of an in-range pair
NewInRange ==
    /\ last.op = "NewTransactionShortID"
    /\ InRange(last.height, last.txSequenceID)

\* C11: for every height < 2^50 and every sequence index < 2^14,
\* NewTransactionShortID(height, seq).BlockHeight() is height and
\* .TransactionSequenceIndex() is seq, and distinct in-range pairs give
\* distinct short IDs.
C11_PackingRoundTrip ==
    /\ (/\ last.op = "BlockHeight"
        /\ last.of.op = "NewTransactionShortID"
        /\ InRange(last.of.height, last.of.txSequenceID))
          => last.val = last.of.height
    /\ (/\ last.op = "TransactionSequenceIndex"
        /\ last.of.op = "NewTransactionShortID"
        /\ InRange(last.of.height, last.of.txSequenceID))
          => last.val = last.of.txSequenceID
    /\ NewInRange =>
          \A h \in Heights, q \in SequenceIDs :
              (InRange(h, q) /\ <<h, q>> # <<last.height, last.txSequenceID>>)
                  => NewTransactionShortID(h, q).id # txsid

C11_Witness ==
    /\ last.op = "TransactionSequenceIndex"
    /\ last.of.op = "NewTransactionShortID"
    /\ last.of.height = U64(12345)
    /\ last.of.txSequenceID = U64(42)
    /\ last.val = U64(42)
    /\ BlockHeight(txsid) = U64(12345)

\* C12: NewTransactionShortID(height, seq) panics if and only if
\* height >= 2^50 or seq >= 2^14, and returns a value for every in-range pair,
\* the maxima 2^50 - 1 and 2^14 - 1 included.
C12_Bounds ==
    last.op = "NewTransactionShortID" =>
        /\ (last.panic # NoPanic) <=>
              (~Less(last.height, Pow2(50)) \/ ~Less(last.txSequenceID, Pow2(14)))
        /\ last.panic = NoPanic =>
              txsid = NewTransactionShortID(last.height, last.txSequenceID).id

C12_Witness ==
    /\ last.op = "NewTransactionShortID"
    /\ last.height = Pow2Minus1(50)
    /\ last.txSequenceID = Pow2Minus1(14)
    /\ last.panic = NoPanic
    /\ txsid = Pow2Minus1(Uint64Bits)

\* C13: TransactionShortID.UnmarshalSia returns an error, and assigns no
\* value, whenever the Read delivers fewer than 8 bytes: because 1 to 7 bytes
\* are left, or because the reader delivers the 8 bytes over several calls.
C13_TruncatedIsError ==
    (last.op = "ShortIDUnmarshalSia" /\ rd[1].n < 8) =>
        (last.err # ErrNil /\ txsid = rd[1].before)

\* byte-wise (lexicographic) order of two byte strings of the same length
LexLess(a, b) ==
    \E i \in 1..Len(a) : a[i] < b[i] /\ \A j \in 1..(i - 1) : a[j] = b[j]

\* chain order of two short IDs: by block height, then by sequence index
ChainLess(a, b) ==
    \/ Less(BlockHeight(a), BlockHeight(b))
    \/ /\ BlockHeight(a) = BlockHeight(b)
       /\ Less(TransactionSequenceIndex(a), TransactionSequenceIndex(b))

\* the short IDs a written one is compared with
InRangeShortIDs ==
    { NewTransactionShortID(h, q).id :
        h \in {h \in Heights : Less(h, Pow2(50))},
        q \in {q \in SequenceIDs : Less(q, Pow2(14))} }

\* C14: for any two short IDs a and b, the byte-wise comparison of their
\* 8-byte serialized forms orders them as the comparison of
\* (BlockHeight, TransactionSequenceIndex) does.
C14_SerializedOrder ==
    last.op = "ShortIDMarshalSia" =>
        \A b \in InRangeShortIDs \cup RawShortIDs :
            LexLess(w, ShortIDMarshalSia(b)) <=> ChainLess(txsid, b)

\* C15: for all in-range (h1, s1) and (h2, s2), NewTransactionShortID(h1, s1)
\* is less than NewTransactionShortID(h2, s2) as an unsigned 64-bit integer if
\* and only if h1 < h2, or h1 = h2 and s1 < s2.
C15_OrderPreserving ==
    NewInRange =>
        \A h \in Heights, q \in SequenceIDs :
            InRange(h, q) =>
                (Less(txsid, NewTransactionShortID(h, q).id)
                    <=> (\/ Less(last.height, h)
                         \/ last.height = h /\ Less(last.txSequenceID, q)))

C15_Witness ==
    /\ NewInRange
    /\ last.height = U64(1)
    /\ last.txSequenceID = Zero64
    /\ last.panic = NoPanic
    /\ Less(NewTransactionShortID(Zero64, Pow2Minus1(14)).id, txsid)
    /\ Less(txsid, NewTransactionShortID(U64(1), U64(1)).id)

BeforeFirstZero(s) ==
    LET zeros == {i \in 1..Len(s) : s[i] = 0} IN
    IF zeros = {} THEN s
    ELSE Take(s, (CHOOSE i \in zeros : \A j \in zeros : i <= j) - 1)

\* C17: Specifier.String returns exactly the bytes before the first zero byte
\* of the 16-byte array, for every specifier value: the empty string when
\* byte 0 is zero, all 16 bytes when the specifier has no zero byte.
C17_StringPrefix ==
    last.op = "SpecifierString" => last.val = BeforeFirstZero(specifier)

\* C18: after any sequence of LoadString / UnmarshalJSON calls on one
\* Specifier, the last successful call with a string str (len(str) <= 16)
\* leaves the specifier equal to the bytes of str followed by zero bytes up to
\* length 16, whatever it held before; a call with len(str) > 16 returns an
\* error and leaves the specifier unchanged.
C18_Repad ==
    last.op \in {"LoadString", "SpecifierUnmarshalJSON"} =>
        /\ (last.isString /\ Len(last.str) > SpecifierLen) => last.err # ErrNil
        /\ last.err # ErrNil => specifier = last.before
        /\ last.err = ErrNil =>
              specifier = last.str
                  \o [i \in 1..(SpecifierLen - Len(last.str)) |-> 0]

\* a fresh Transaction has just decoded the document MarshalJSON returned for
\* sent[1]
JSONRoundTrip ==
    /\ last.op = "UnmarshalJSON"
    /\ rd[1].fresh
    /\ sent # <<>>
    /\ js[1].valid

\* C19 as stated: for every transaction t whose Version is 0 or registered,
\* whatever its Extension, UnmarshalJSON applied to the output of
\* MarshalJSON(t) succeeds and yields t; the "version" of the envelope is
\* t.Version.
C19_AnyExtension ==
    /\ (JSONRoundTrip /\ KnownVersion(sent[1].Version))
          => (last.err = ErrNil /\ tx = sent[1])
    /\ (last.op = "MarshalJSON" /\ last.err = ErrNil)
          => js[1].obj["version"] = tx.Version

\* C19 amended: for every transaction t whose Version is 0 or registered and
\* whose Extension is the one the decoding of that Version leaves (nil for
\* Version 0), UnmarshalJSON applied to the output of MarshalJSON(t) into a
\* fresh Transaction succeeds and yields t; the "version" of the envelope is
\* t.Version whatever the Extension.
C19_JSONRoundTrip ==
    /\ (/\ JSONRoundTrip
        /\ KnownVersion(sent[1].Version)
        /\ sent[1].Extension = InstalledExtension(registry, sent[1].Version))
          => (last.err = ErrNil /\ tx = sent[1])
    /\ (last.op = "MarshalJSON" /\ last.err = ErrNil)
          => js[1].obj["version"] = tx.Version

C19_Witness ==
    /\ JSONRoundTrip
    /\ sent[1].Version = 0
    /\ sent[1].Extension = NilExtension
    /\ sent[1].CoinOutputs = <<>>
    /\ sent[1].ArbitraryData # <<>>
    /\ "coinoutputs" \notin DOMAIN js[1].obj["data"].obj
    /\ tx = sent[1]

\* the sum of the numbers of a sequence, taken from its last to its first
RECURSIVE Total(_)
Total(q) == IF q = <<>> THEN 0 ELSE q[Len(q)] + Total(Take(q, Len(q) - 1))

\* C20: CoinOutputSum is the sum of the Value of every coin output plus every
\* miner fee (17 for outputs [10, 5] and fees [2], zero for an empty
\* transaction); it does not depend on the order of outputs or fees, nor on
\* coin inputs, blockstake inputs and outputs, Version and Extension.
C20_CoinOutputSum ==
    last.op = "CoinOutputSum" =>
        /\ last.sum = Total([i \in 1..Len(tx.CoinOutputs) |-> tx.CoinOutputs[i].Value])
                        + Total(tx.MinerFees)
        /\ last.sum = CoinOutputSum([tx EXCEPT !.CoinOutputs = Reverse(@),
                                               !.MinerFees = Reverse(@)])
        /\ last.sum = CoinOutputSum([ZeroTransaction EXCEPT
                                        !.CoinOutputs = tx.CoinOutputs,
                                        !.MinerFees = tx.MinerFees])
        /\ (tx.CoinOutputs = <<Output(10), Output(5)>> /\ tx.MinerFees = <<2>>)
              => last.sum = 17
        /\ (tx.CoinOutputs = <<>> /\ tx.MinerFees = <<>>) => last.sum = 0

C20_Witness ==
    /\ last.op = "CoinOutputSum"
    /\ tx.CoinOutputs = <<Output(10), Output(5)>>
    /\ tx.MinerFees = <<2>>
    /\ tx.CoinInputs # <<>>
    /\ tx.Version = 1
    /\ last.sum = 17

\* a decoding into tx as it was, not into a fresh Transaction, has succeeded
DecodedIntoUsed ==
    /\ last.op \in {"UnmarshalSia", "UnmarshalJSON"}
    /\ last.err = ErrNil
    /\ ~rd[1].fresh

\* what a fresh Transaction holds after decoding the input of the last decoding
DecodedFresh ==
    IF rd[1].codec = "sia" THEN UnmarshalSia(registry, ZeroTransaction, rd[1].b).t
    ELSE UnmarshalJSON(registry, ZeroTransaction, rd[1].b).t

\* C23: a successful UnmarshalSia / UnmarshalJSON of the same input leaves a
\* receiver with earlier contents, a non-nil Extension included, equal in
\* every field to a fresh receiver, so that MarshalSia then writes the same
\* bytes for both.
C23_ReceiverIndependent ==
    DecodedIntoUsed =>
        /\ tx = DecodedFresh
        /\ MarshalSia(tx) = MarshalSia(DecodedFresh)

\* C24: whenever UnmarshalSia returns an error, every field of the receiving
\* Transaction has the value it had before the call.
C24_FailedDecodeUntouched ==
    (last.op = "UnmarshalSia" /\ last.err # ErrNil) => tx = rd[1].before

\* C25: when the Extension is an encoder whose EncodeTransactionData returns
\* an error, MarshalSia returns that error and writes no byte, not even the
\* version; when JSONEncodeTransactionData fails, MarshalJSON returns that
\* error and no JSON.
C25_EncoderFailure ==
    /\ (/\ last.op = "MarshalSia"
        /\ tx.Extension.enc # "none"
        /\ EncodeTransactionData(tx.Extension, tx).err # ErrNil)
          => /\ last.err = EncodeTransactionData(tx.Extension, tx).err
             /\ w = <<>>
    /\ (/\ last.op = "MarshalJSON"
        /\ tx.Extension.enc # "none"
        /\ JSONEncodeTransactionData(tx.Extension, tx).err # ErrNil)
          => /\ last.err = JSONEncodeTransactionData(tx.Extension, tx).err
             /\ js = <<InvalidJSON>>

C25_Witness ==
    /\ last.op = "MarshalSia"
    /\ tx.Extension.enc = "fail"
    /\ tx.Version = 1
    /\ tx.CoinOutputs # <<>>
    /\ last.err = ErrEncoder
    /\ w = <<>>

\* the envelope MarshalJSON returned for sent[1], a transaction of a version
\* above 0 without custom encoder, has just been decoded
FallbackDecoded ==
    /\ last.op = "UnmarshalJSON"
    /\ sent # <<>>
    /\ sent[1].Version > 0
    /\ sent[1].Extension.enc = "none"

\* C26: for a transaction of Version > 0 without custom encoder MarshalJSON
\* succeeds, the "version" of the envelope is that Version and its "data" is
\* the "data" of the Version-0 transaction with the same six core fields;
\* decoding that envelope goes to the decoder registered for the version, or
\* fails with the invalid-version error when none is registered.
C26_LegacyFallback ==
    /\ (last.op = "MarshalJSON" /\ tx.Version > 0 /\ tx.Extension.enc = "none")
          => /\ last.err = ErrNil
             /\ js[1].valid
             /\ js[1].obj["version"] = tx.Version
             /\ js[1].obj["data"]
                   = MarshalJSON([tx EXCEPT !.Version = 0]).doc.obj["data"]
             /\ js[1].obj["data"] = Object(MarshalLegacyJSON(tx))
    /\ FallbackDecoded
          => /\ rd[1].b.obj["version"] = sent[1].Version
             /\ IF sent[1].Version \in DOMAIN registry
                THEN /\ rd[1].path = "registered"
                     /\ last.err = RegisteredJSONDecodeTransactionData(
                                       registry[sent[1].Version], sent[1].Version,
                                       rd[1].b.obj["data"]).err
                ELSE /\ rd[1].path = "unknown"
                     /\ last.err = ErrInvalidTransactionVersion

C26_Witness ==
    /\ FallbackDecoded
    /\ sent[1].Version = 1
    /\ 1 \in DOMAIN registry
    /\ sent[1].BlockStakeInputs # <<>>
    /\ rd[1].path = "registered"
    /\ last.err = ErrNil

ParBothDone ==
    /\ last.op = "parallel"
    /\ \A i \in Workers : par.pc[i] = "done"
    /\ par.mixed

\* C22: with the registry fixed after startup, in any interleaving of
\* encode, decode, ID, ValidateTransaction and IsStandardTransaction calls on
\* distinct Transaction instances each call returns, and leaves in its
\* instance, what it does when run alone.
C22_InterferenceFree ==
    last.op = "parallel" =>
        \A i \in Workers :
            par.pc[i] = "done" => par.res[i] = Call(registry, par.calls[i])

C22_Witness ==
    /\ ParBothDone
    /\ registry = FullRegistry
    /\ par.calls[1].op = "UnmarshalSia"
    /\ par.calls[2].op = "UnmarshalJSON"
    /\ par.res[1].path = "registered"
    /\ par.res[2].path = "registered"
    /\ par.res[1].t.Version # par.res[2].t.Version
    /\ par.res[1].err = ErrNil
    /\ par.res[2].err = ErrNil

====
